---- MODULE Spec2Model ----
(***************************************************************************)
(* Model of the single-node ledger of src/mini_blockchain.py: wallets,     *)
(* signed transactions, Merkle commitment, blocks, proof-of-work and the   *)
(* Blockchain class (pending pool, mining, balance replay, validation).    *)
(*                                                                         *)
(* Modelling conventions                                                   *)
(*  - Amounts and fees are Python floats in the source; they are modelled  *)
(*    as integers (whole units), negative values included because          *)
(*    Transaction.__init__ only applies float().                           *)
(*  - sha256 is modelled as a collision-free constructor Sha256(data): a   *)
(*    digest is the record [digest_of |-> data].  The hexadecimal text of  *)
(*    a digest, needed by proof_of_work's startswith test, is HexLen       *)
(*    digits derived arithmetically from the hashed data (HexValue).       *)
(*  - An ECDSA signature is the record [kind, signer, msg]; it verifies    *)
(*    under a public key iff signer is that key and msg is the message.    *)
(*  - A wallet is identified with its public key.                          *)
(*  - accepted is the callers' record of the transactions for which        *)
(*    add_transaction returned True, in the order of the returns; obj is   *)
(*    the Transaction or Block object a caller holds outside the ledger.   *)
(***************************************************************************)
EXTENDS Integers, Sequences, FiniteSets, TLC

VARIABLES chain, pending, difficulty, mining_reward, last, threads, accepted, obj

vars == <<chain, pending, difficulty, mining_reward, last, threads, accepted, obj>>

(***************************************************************************)
(* Bounds of the model                                                     *)
(***************************************************************************)
\* largest length of the pending pool the model explores, for calls executed
\* one at a time and for calls from concurrent threads
MaxPending == 2
MaxConcPending == 3
\* largest number of transactions of a block a caller builds directly
MaxBlockTxs == 4
\* number of hexadecimal digits of a modelled digest
HexLen == 2

SYSTEM == "SYSTEM"
Keys == {"A", "B"}
\* the wallets that mine: the transacting ones and one that only mines
MinerKeys == Keys \cup {"M"}
Identities == Keys \cup {SYSTEM}
Amounts == {-1, 0, 1}
Fees == {0, 1}
\* values time.time() returns; 0 stands for an argument left None
Timestamps == {1}
NoTimestamp == 0

(***************************************************************************)
(* Utilities                                                               *)
(***************************************************************************)
Range(s) == {s[i] : i \in 1..Len(s)}

RECURSIVE SumSeq(_)
SumSeq(s) == IF s = <<>> THEN 0 ELSE Head(s) + SumSeq(Tail(s))

\* [ f(s[i]) : i \in 1..Len(s) ], the list comprehension
MapSeq(s, F(_)) == [i \in 1..Len(s) |-> F(s[i])]

Sha256(data) == [digest_of |-> data]
\* a string that is not the output of sha256, such as the genesis "0"
HexLiteral(s) == [literal |-> s]
EmptyString == [type |-> "str", chars |-> ""]
Concat(h1, h2) == [type |-> "concat", left |-> h1, right |-> h2]

KeyCode(k) == CASE k = "A" -> 1 [] k = "B" -> 2 [] OTHER -> 3

\* the number a digest's hexadecimal text is derived from
RECURSIVE Mix(_)
Mix(h) ==
    IF "literal" \in DOMAIN h THEN 1
    ELSE LET d == h.digest_of IN
         CASE d.type = "str" -> 2
           [] d.type = "tx" -> 3 + KeyCode(d.sender) + 5 * KeyCode(d.recipient)
                                 + 7 * (d.amount + 8) + 11 * (d.fee + 8)
                                 + 13 * d.timestamp
           [] d.type = "concat" -> 23 + 17 * Mix(d.left) + 19 * Mix(d.right)
           [] d.type = "header" -> 29 * d.index + 31 * Mix(d.previous_hash)
                                     + 37 * d.timestamp + 7 * d.nonce
                                     + 41 * Mix(d.merkle_root)

RECURSIVE Pow16(_)
Pow16(n) == IF n <= 0 THEN 1 ELSE 16 * Pow16(n - 1)

\* the digest as a HexLen-digit hexadecimal number
HexValue(h) == Mix(h) % Pow16(HexLen)

\* computed_hash.startswith("0" * d)
StartsWithZeros(h, d) ==
    IF d <= 0 THEN TRUE
    ELSE IF d > HexLen THEN FALSE
    ELSE HexValue(h) < Pow16(HexLen - d)

(***************************************************************************)
(* Wallet                                                                  *)
(***************************************************************************)
NoSignature == [kind |-> "None"]
\* a signature string that is not hexadecimal
GarbageSignature == [kind |-> "garbage"]

WalletSign(wallet, message) == [kind |-> "sig", signer |-> wallet, msg |-> message]

\* the body of the try block: "True", or the exception it raises
verify_signature_try(public_hex, message, signature_hex) ==
    IF public_hex \notin Keys THEN "ValueError"
    ELSE IF signature_hex.kind # "sig" THEN "ValueError"
    ELSE IF signature_hex.signer = public_hex /\ signature_hex.msg = message
    THEN "True"
    ELSE "BadSignatureError"

\* except (BadSignatureError, Exception): return False
verify_signature(public_hex, message, signature_hex) ==
    verify_signature_try(public_hex, message, signature_hex) = "True"

(***************************************************************************)
(* Transaction                                                             *)
(***************************************************************************)
TransactionParams ==
    {"sender_pub", "recipient_pub", "amount", "signature", "timestamp", "fee"}
TransactionRequired == {"sender_pub", "recipient_pub", "amount"}

\* Python's argument binding for Transaction(...) called with these keywords
TransactionBinds(keywords) ==
    /\ keywords \subseteq TransactionParams
    /\ TransactionRequired \subseteq keywords

Transaction(sender_pub, recipient_pub, amount, signature, timestamp, fee, now) ==
    [sender |-> sender_pub,
     recipient |-> recipient_pub,
     amount |-> amount,
     fee |-> fee,
     timestamp |-> IF timestamp = NoTimestamp THEN now ELSE timestamp,
     signature |-> signature]

tx_compute_hash(tx) ==
    Sha256([type |-> "tx", sender |-> tx.sender, recipient |-> tx.recipient,
            amount |-> tx.amount, fee |-> tx.fee, timestamp |-> tx.timestamp])

\* Transaction.sign for a wallet that matches the sender
tx_sign(tx, wallet) ==
    [tx EXCEPT !.signature = WalletSign(wallet, tx_compute_hash(tx))]

tx_sign_raises(tx, wallet) == wallet # tx.sender

is_signed(tx) == tx.signature # NoSignature

is_valid(tx) ==
    IF tx.sender = SYSTEM THEN TRUE
    ELSE IF ~is_signed(tx) THEN FALSE
    ELSE verify_signature(tx.sender, tx_compute_hash(tx), tx.signature)

(***************************************************************************)
(* Block                                                                   *)
(***************************************************************************)
\* one pass of the while loop: pad an odd level, then hash adjacent pairs
MerkleLevel(tx_hashes) ==
    LET padded == IF Len(tx_hashes) % 2 = 1
                  THEN Append(tx_hashes, tx_hashes[Len(tx_hashes)])
                  ELSE tx_hashes
    IN [i \in 1..(Len(padded) \div 2) |->
            Sha256(Concat(padded[2 * i - 1], padded[2 * i]))]

RECURSIVE MerkleReduce(_)
MerkleReduce(tx_hashes) ==
    IF Len(tx_hashes) > 1 THEN MerkleReduce(MerkleLevel(tx_hashes))
    ELSE tx_hashes[1]

compute_merkle_root(transactions) ==
    LET tx_hashes == MapSeq(transactions, tx_compute_hash) IN
    IF tx_hashes = <<>> THEN Sha256(EmptyString)
    ELSE MerkleReduce(tx_hashes)

\* compute_hash leaving the timestamp out of the header
block_compute_hash_no_timestamp(block) ==
    Sha256([type |-> "header",
            index |-> block.index,
            previous_hash |-> block.previous_hash,
            nonce |-> block.nonce,
            merkle_root |-> compute_merkle_root(block.transactions)])

block_compute_hash(block) ==
    Sha256([type |-> "header",
            index |-> block.index,
            previous_hash |-> block.previous_hash,
            timestamp |-> block.timestamp,
            nonce |-> block.nonce,
            merkle_root |-> compute_merkle_root(block.transactions)])

Block(index, transactions, previous_hash, timestamp, nonce, now) ==
    LET fields == [index |-> index,
                   transactions |-> transactions,
                   previous_hash |-> previous_hash,
                   timestamp |-> IF timestamp = NoTimestamp THEN now ELSE timestamp,
                   nonce |-> nonce]
    IN [index |-> fields.index,
        transactions |-> fields.transactions,
        previous_hash |-> fields.previous_hash,
        timestamp |-> fields.timestamp,
        nonce |-> fields.nonce,
        hash |-> block_compute_hash(fields)]

(***************************************************************************)
(* Blockchain                                                              *)
(***************************************************************************)
\* a genesis block that already holds an issuance to a wallet
create_genesis_block_premined(now) ==
    <<Block(0, <<Transaction(SYSTEM, "A", 1, NoSignature, now, 0, now)>>,
            HexLiteral("0"), now, 0, now)>>

create_genesis_block(now) ==
    LET genesis == Block(0, <<>>, HexLiteral("0"), now, 0, now)
    IN <<[genesis EXCEPT !.hash = block_compute_hash(genesis)]>>

last_block(c) == c[Len(c)]

\* the effect of one transaction on the running balance of pubkey
TxDelta(tx, pubkey) ==
    (IF tx.sender = pubkey THEN 0 - (tx.amount + tx.fee) ELSE 0)
    + (IF tx.recipient = pubkey THEN tx.amount ELSE 0)

\* get_balance replaying the pending pool after the chain
get_balance_counting_pending(c, pubkey) ==
    SumSeq([i \in 1..Len(c) |->
              SumSeq([j \in 1..Len(c[i].transactions) |->
                        TxDelta(c[i].transactions[j], pubkey)])])
    + SumSeq([j \in 1..Len(pending) |-> TxDelta(pending[j], pubkey)])

get_balance(c, pubkey) ==
    SumSeq([i \in 1..Len(c) |->
              SumSeq([j \in 1..Len(c[i].transactions) |->
                        TxDelta(c[i].transactions[j], pubkey)])])

pending_spent(p, sender) ==
    SumSeq([i \in 1..Len(p) |->
              IF p[i].sender = sender THEN p[i].amount + p[i].fee ELSE 0])

\* add_transaction with the funds test written >=
add_transaction_strict(c, p, transaction) ==
    IF ~is_valid(transaction)
    THEN [ret |-> FALSE, pending |-> p]
    ELSE IF /\ transaction.sender # SYSTEM
            /\ (transaction.amount + transaction.fee)
                 >= get_balance(c, transaction.sender)
                     - pending_spent(p, transaction.sender)
    THEN [ret |-> FALSE, pending |-> p]
    ELSE [ret |-> TRUE, pending |-> Append(p, transaction)]

\* add_transaction appending to the pool before the funds test
add_transaction_append_first(c, p, transaction) ==
    IF ~is_valid(transaction)
    THEN [ret |-> FALSE, pending |-> p]
    ELSE IF /\ transaction.sender # SYSTEM
            /\ (transaction.amount + transaction.fee)
                 > get_balance(c, transaction.sender)
                     - pending_spent(p, transaction.sender)
    THEN [ret |-> FALSE, pending |-> Append(p, transaction)]
    ELSE [ret |-> TRUE, pending |-> Append(p, transaction)]

\* the result of add_transaction: its return value and the pool afterwards
add_transaction(c, p, transaction) ==
    IF ~is_valid(transaction)
    THEN [ret |-> FALSE, pending |-> p]
    ELSE IF /\ transaction.sender # SYSTEM
            /\ (transaction.amount + transaction.fee)
                 > get_balance(c, transaction.sender)
                     - pending_spent(p, transaction.sender)
    THEN [ret |-> FALSE, pending |-> p]
    ELSE [ret |-> TRUE, pending |-> Append(p, transaction)]

\* the while loop of proof_of_work, entered with block.nonce = n
RECURSIVE PowLoop(_, _)
PowLoop(block, d) ==
    LET computed_hash == block_compute_hash(block) IN
    IF StartsWithZeros(computed_hash, d)
    THEN [hash |-> computed_hash, nonce |-> block.nonce]
    ELSE PowLoop([block EXCEPT !.nonce = @ + 1], d)

proof_of_work(block, d) == PowLoop([block EXCEPT !.nonce = 0], d)

\* keywords of the call that builds the reward transaction
RewardTxKeywords == {"sender", "recipient", "amount"}

\* mine_pending_transactions taking the tip off the chain before it builds
\* the reward transaction
mine_pending_transactions_pop_tip(c, p, d, reward, miner_pub, now_tx, now_block) ==
    [raised |-> "TypeError", chain |-> SubSeq(c, 1, Len(c) - 1), pending |-> p]

\* the result of mine_pending_transactions: the exception it raises, if
\* any, and chain and pool afterwards
mine_pending_transactions(c, p, d, reward, miner_pub, now_tx, now_block) ==
    LET txs_to_include == p
        total_fees == SumSeq(MapSeq(txs_to_include, LAMBDA tx : tx.fee))
    IN
    IF ~TransactionBinds(RewardTxKeywords)
    THEN [raised |-> "TypeError", chain |-> c, pending |-> p]
    ELSE
    LET reward_tx == Transaction(SYSTEM, miner_pub, reward + total_fees,
                                 NoSignature, NoTimestamp, 0, now_tx)
        txs == Append(txs_to_include, reward_tx)
        new_block == Block(last_block(c).index + 1, txs, last_block(c).hash,
                           NoTimestamp, 0, now_block)
        pow == proof_of_work(new_block, d)
        mined == [new_block EXCEPT !.hash = pow.hash, !.nonce = pow.nonce]
    IN [raised |-> "none",
        chain |-> Append(c, mined),
        pending |-> SelectSeq(p, LAMBDA tx : tx \notin Range(txs))]

\* is_chain_valid with its loop starting at index 0, where chain[i - 1] is
\* the last block
is_chain_valid_from_genesis(c) ==
    \A i \in 1..Len(c) :
        LET prev == IF i = 1 THEN c[Len(c)] ELSE c[i - 1] IN
        /\ c[i].previous_hash = prev.hash
        /\ block_compute_hash(c[i]) = c[i].hash
        /\ \A j \in 1..Len(c[i].transactions) : is_valid(c[i].transactions[j])

is_chain_valid(c) ==
    \A i \in 2..Len(c) :
        /\ c[i].previous_hash = c[i - 1].hash
        /\ block_compute_hash(c[i]) = c[i].hash
        /\ \A j \in 1..Len(c[i].transactions) : is_valid(c[i].transactions[j])

(***************************************************************************)
(* Callers' inputs                                                         *)
(***************************************************************************)
\* Blockchain(difficulty, mining_reward): the arguments the model constructs with
Difficulties == {1}
Rewards == {2}

UnsignedTxs ==
    {tx \in {Transaction(s, r, a, NoSignature, NoTimestamp, f, now) :
                s \in Identities, r \in Keys, a \in Amounts, f \in Fees,
                now \in Timestamps} :
        tx.sender # tx.recipient}

\* built and signed with the sender's wallet
SignedTxs == {tx_sign(tx, tx.sender) : tx \in {u \in UnsignedTxs : u.sender \in Keys}}

\* carrying the signature of a wallet other than the sender's
ForgedTxs ==
    {[tx EXCEPT !.signature = WalletSign(w, tx_compute_hash(tx))] :
        tx \in {u \in UnsignedTxs : u.sender \in Keys /\ u.fee = 0},
        w \in Keys} \ SignedTxs

\* signed, then the amount changed
AlteredTxs == {[tx EXCEPT !.amount = @ + 1] : tx \in {u \in SignedTxs : u.fee = 0}}

\* carrying a signature string that does not decode
GarbageTxs ==
    {[tx EXCEPT !.signature = GarbageSignature] :
        tx \in {u \in UnsignedTxs : u.sender \in Keys /\ u.fee = 0}}

TxInputs == UnsignedTxs \cup SignedTxs \cup ForgedTxs \cup AlteredTxs \cup GarbageTxs

Threads == {"t1", "t2"}
IdleThread == [pc |-> "idle"]
AllIdle == \A t \in Threads : threads[t].pc = "idle"

\* no object held outside the ledger
NoObject == [kind |-> "none"]

Returned(op, ok, raised, val) == [op |-> op, ok |-> ok, raised |-> raised, val |-> val]

(***************************************************************************)
(* Construction                                                            *)
(***************************************************************************)
\* Blockchain(difficulty, mining_reward) and the callers' bookkeeping
LedgerInit ==
    /\ \E now \in Timestamps : chain = create_genesis_block(now)
    /\ pending = <<>>
    /\ difficulty \in Difficulties
    /\ mining_reward \in Rewards
    /\ last = Returned("init", TRUE, "none", 0)
    /\ threads = [t \in Threads |-> IdleThread]
    /\ accepted = <<>>

Init ==
    /\ LedgerInit
    /\ obj = NoObject

(***************************************************************************)
(* Calls executed one at a time                                            *)
(***************************************************************************)
\* add_transaction also recording an accepted transaction in the tip block
AddTransaction_confirming(tx) ==
    LET r == add_transaction(chain, pending, tx) IN
    /\ AllIdle
    /\ Len(r.pending) <= MaxPending
    /\ pending' = r.pending
    /\ chain' = IF r.ret
                THEN [chain EXCEPT ![Len(chain)].transactions = Append(@, tx)]
                ELSE chain
    /\ last' = Returned("add_transaction", r.ret, "none", 0)
    /\ accepted' = IF r.ret THEN Append(accepted, tx) ELSE accepted
    /\ UNCHANGED <<difficulty, mining_reward, threads, obj>>

AddTransaction(tx) ==
    LET r == add_transaction(chain, pending, tx) IN
    /\ AllIdle
    /\ Len(r.pending) <= MaxPending
    /\ pending' = r.pending
    /\ last' = Returned("add_transaction", r.ret, "none", 0)
    /\ accepted' = IF r.ret THEN Append(accepted, tx) ELSE accepted
    /\ UNCHANGED <<chain, difficulty, mining_reward, threads, obj>>

MinePendingTransactions(miner_pub, now_tx, now_block) ==
    LET r == mine_pending_transactions(chain, pending, difficulty, mining_reward,
                                       miner_pub, now_tx, now_block) IN
    /\ AllIdle
    /\ chain' = r.chain
    /\ pending' = r.pending
    /\ last' = Returned("mine", r.raised = "none", r.raised, 0)
    /\ UNCHANGED <<difficulty, mining_reward, threads, accepted, obj>>

GetBalance(pubkey) ==
    /\ AllIdle
    /\ last' = Returned("get_balance", TRUE, "none", get_balance(chain, pubkey))
    /\ UNCHANGED <<chain, pending, difficulty, mining_reward, threads, accepted, obj>>

IsChainValid ==
    /\ AllIdle
    /\ last' = Returned("is_chain_valid", is_chain_valid(chain), "none", 0)
    /\ UNCHANGED <<chain, pending, difficulty, mining_reward, threads, accepted, obj>>

Next ==
    \/ \E tx \in TxInputs : AddTransaction(tx)
    \/ \E miner_pub \in MinerKeys, now_tx \in Timestamps, now_block \in Timestamps :
          MinePendingTransactions(miner_pub, now_tx, now_block)
    \/ \E pubkey \in Identities \cup MinerKeys : GetBalance(pubkey)
    \/ IsChainValid

Spec == Init /\ [][Next]_vars

(***************************************************************************)
(* add_transaction called from concurrent request threads.  The method     *)
(* takes no lock, so a thread can be preempted between its statements:     *)
(* the signature check (line 193), the balance replay (line 199), the sum  *)
(* over the pool (line 200) and the comparison and append (202-207).       *)
(***************************************************************************)
\* the submissions the request threads make
ConcTxInputs == {tx \in TxInputs : tx.fee = 0 /\ tx.recipient = "B"}

ThreadBegin(t, tx) ==
    /\ threads[t].pc = "idle"
    /\ IF ~is_valid(tx)
       THEN /\ last' = Returned("add_transaction", FALSE, "none", 0)
            /\ UNCHANGED threads
       ELSE /\ threads' = [threads EXCEPT ![t] = [pc |-> "line198", tx |-> tx]]
            /\ UNCHANGED last
    /\ UNCHANGED <<chain, pending, difficulty, mining_reward, accepted, obj>>

ThreadReadBalance(t) ==
    /\ threads[t].pc = "line198"
    /\ threads[t].tx.sender # SYSTEM
    /\ threads' = [threads EXCEPT ![t] =
                      [pc |-> "line200", tx |-> threads[t].tx,
                       sender_bal |-> get_balance(chain, threads[t].tx.sender)]]
    /\ UNCHANGED <<chain, pending, difficulty, mining_reward, last, accepted, obj>>

ThreadReadPending(t) ==
    /\ threads[t].pc = "line200"
    /\ threads' = [threads EXCEPT ![t] =
                      [pc |-> "line202", tx |-> threads[t].tx,
                       sender_bal |-> threads[t].sender_bal,
                       pending_spent |-> pending_spent(pending, threads[t].tx.sender)]]
    /\ UNCHANGED <<chain, pending, difficulty, mining_reward, last, accepted, obj>>

ThreadCommit(t) ==
    LET tx == threads[t].tx
        system == threads[t].pc = "line198" /\ tx.sender = SYSTEM
        rejected == /\ ~system
                    /\ (tx.amount + tx.fee)
                         > threads[t].sender_bal - threads[t].pending_spent
    IN
    /\ threads[t].pc = "line202" \/ system
    /\ IF rejected
       THEN UNCHANGED <<pending, accepted>>
       ELSE /\ Len(pending) < MaxConcPending
            /\ pending' = Append(pending, tx)
            /\ accepted' = Append(accepted, tx)
    /\ last' = Returned("add_transaction", ~rejected, "none", 0)
    /\ threads' = [threads EXCEPT ![t] = IdleThread]
    /\ UNCHANGED <<chain, difficulty, mining_reward, obj>>

NextConc ==
    \/ \E t \in Threads, tx \in ConcTxInputs : ThreadBegin(t, tx)
    \/ \E t \in Threads : ThreadReadBalance(t)
    \/ \E t \in Threads : ThreadReadPending(t)
    \/ \E t \in Threads : ThreadCommit(t)

SpecConc == Init /\ [][NextConc]_vars

(***************************************************************************)
(* mine_pending_transactions called from a request thread while other      *)
(* threads are inside add_transaction or inside mine_pending_transactions. *)
(* The method takes no lock; a thread can be preempted after the copy of   *)
(* the pool (line 220) and after the sum of the fees (line 223).  Line 226 *)
(* raises before any later statement runs, so the statements 227-240 are   *)
(* given as the one step that would follow it.                             *)
(***************************************************************************)
\* the thread that submits and the threads that mine, in this specification
Submitters == {"t1"}
ConcMiners == {"M"}

\* line 220 taking the pool instead of copying it
MineBegin_taking(t, miner_pub) ==
    /\ threads[t].pc = "idle"
    /\ threads' = [threads EXCEPT ![t] =
                      [pc |-> "line223", miner_pub |-> miner_pub,
                       txs_to_include |-> pending]]
    /\ pending' = <<>>
    /\ UNCHANGED <<chain, difficulty, mining_reward, last, accepted, obj>>

MineBegin(t, miner_pub) ==
    /\ threads[t].pc = "idle"
    /\ threads' = [threads EXCEPT ![t] =
                      [pc |-> "line223", miner_pub |-> miner_pub,
                       txs_to_include |-> pending]]
    /\ UNCHANGED <<chain, pending, difficulty, mining_reward, last, accepted, obj>>

MineFees(t) ==
    /\ threads[t].pc = "line223"
    /\ threads' = [threads EXCEPT ![t] =
                      [pc |-> "line226", miner_pub |-> threads[t].miner_pub,
                       txs_to_include |-> threads[t].txs_to_include,
                       total_fees |-> SumSeq(MapSeq(threads[t].txs_to_include,
                                                    LAMBDA tx : tx.fee))]]
    /\ UNCHANGED <<chain, pending, difficulty, mining_reward, last, accepted, obj>>

MineReward(t, now_tx, now_block) ==
    /\ threads[t].pc = "line226"
    /\ IF ~TransactionBinds(RewardTxKeywords)
       THEN /\ last' = Returned("mine", FALSE, "TypeError", 0)
            /\ UNCHANGED <<chain, pending>>
       ELSE LET reward_tx == Transaction(SYSTEM, threads[t].miner_pub,
                                         mining_reward + threads[t].total_fees,
                                         NoSignature, NoTimestamp, 0, now_tx)
                txs == Append(threads[t].txs_to_include, reward_tx)
                new_block == Block(last_block(chain).index + 1, txs,
                                   last_block(chain).hash, NoTimestamp, 0, now_block)
                pow == proof_of_work(new_block, difficulty)
            IN /\ chain' = Append(chain, [new_block EXCEPT !.hash = pow.hash,
                                                           !.nonce = pow.nonce])
               /\ pending' = SelectSeq(pending, LAMBDA tx : tx \notin Range(txs))
               /\ last' = Returned("mine", TRUE, "none", 0)
    /\ threads' = [threads EXCEPT ![t] = IdleThread]
    /\ UNCHANGED <<difficulty, mining_reward, accepted, obj>>

NextConcMine ==
    \/ \E t \in Submitters, tx \in ConcTxInputs : ThreadBegin(t, tx)
    \/ \E t \in Submitters : ThreadReadBalance(t)
    \/ \E t \in Submitters : ThreadReadPending(t)
    \/ \E t \in Submitters : ThreadCommit(t)
    \/ \E t \in Threads, miner_pub \in ConcMiners : MineBegin(t, miner_pub)
    \/ \E t \in Threads : MineFees(t)
    \/ \E t \in Threads, now_tx \in Timestamps, now_block \in Timestamps :
          MineReward(t, now_tx, now_block)

SpecConcMine == Init /\ [][NextConcMine]_vars

(***************************************************************************)
(* A caller building a Transaction, signing it with a wallet, assigning    *)
(* to its attributes and asking is_valid, outside any ledger call.         *)
(***************************************************************************)
\* values time.time() returns to the caller building transactions
CallerTimestamps == {1, 2}

\* the five attributes compute_hash serialises
SignedFields(tx) ==
    [sender |-> tx.sender, recipient |-> tx.recipient, amount |-> tx.amount,
     fee |-> tx.fee, timestamp |-> tx.timestamp]

\* obj.signed_fields: the attributes as they were when sign last returned
TxObject(tx, signed_fields) == [kind |-> "tx", tx |-> tx, signed_fields |-> signed_fields]

InitSign ==
    /\ LedgerInit
    /\ \E tx \in TxInputs : obj = TxObject(tx, NoObject)

\* Transaction.sign assigning the signature before comparing the keys
SignTransaction_unchecked(wallet) ==
    /\ obj.kind = "tx"
    /\ obj' = TxObject(tx_sign(obj.tx, wallet), SignedFields(obj.tx))
    /\ last' = IF tx_sign_raises(obj.tx, wallet)
               THEN Returned("sign", FALSE, "ValueError", 0)
               ELSE Returned("sign", TRUE, "none", 0)
    /\ UNCHANGED <<chain, pending, difficulty, mining_reward, threads, accepted>>

SignTransaction(wallet) ==
    /\ obj.kind = "tx"
    /\ IF tx_sign_raises(obj.tx, wallet)
       THEN /\ last' = Returned("sign", FALSE, "ValueError", 0)
            /\ UNCHANGED obj
       ELSE /\ obj' = TxObject(tx_sign(obj.tx, wallet), SignedFields(obj.tx))
            /\ last' = Returned("sign", TRUE, "none", 0)
    /\ UNCHANGED <<chain, pending, difficulty, mining_reward, threads, accepted>>

\* the values a caller assigns to an attribute of the transaction
FieldValues(field) ==
    CASE field = "sender" -> Identities
      [] field = "recipient" -> Keys
      [] field = "amount" -> Amounts
      [] field = "fee" -> Fees
      [] field = "timestamp" -> CallerTimestamps

SetField(field, value) ==
    /\ obj.kind = "tx"
    /\ obj' = [obj EXCEPT !.tx[field] = value]
    /\ last' = Returned("setattr", TRUE, "none", 0)
    /\ UNCHANGED <<chain, pending, difficulty, mining_reward, threads, accepted>>

IsValid ==
    /\ obj.kind = "tx"
    /\ last' = Returned("is_valid", is_valid(obj.tx), "none", 0)
    /\ UNCHANGED <<chain, pending, difficulty, mining_reward, threads, accepted, obj>>

NextSign ==
    \/ \E wallet \in MinerKeys : SignTransaction(wallet)
    \/ \E field \in {"sender", "recipient", "amount", "fee", "timestamp"} :
          \E value \in FieldValues(field) : SetField(field, value)
    \/ IsValid

SpecSign == InitSign /\ [][NextSign]_vars

(***************************************************************************)
(* A caller building Block objects directly.  Block.__init__ stores what   *)
(* it is given and sets hash to compute_hash().                            *)
(***************************************************************************)
\* the transactions the caller puts in blocks: a transfer unsigned and
\* signed, and a SYSTEM transaction
BlockTxs ==
    {tx \in UnsignedTxs \cup SignedTxs :
        tx.amount = 1 /\ tx.fee = 0 /\ tx.recipient = "B"}

BlockTxLists == UNION {[1..n -> BlockTxs] : n \in 0..MaxBlockTxs}

BlockIndexes == {0, 1}
BlockNonces == {0, 1}
BlockPreviousHashes == {HexLiteral("0"), Sha256(EmptyString)}

\* the constructor arguments besides the transactions: one choice, the
\* choices that differ from it in one argument, and the one that differs in all
BlockHeaders ==
    LET all == [index : BlockIndexes, previous_hash : BlockPreviousHashes,
                timestamp : CallerTimestamps, nonce : BlockNonces]
        first == [index |-> 0, previous_hash |-> HexLiteral("0"),
                  timestamp |-> 1, nonce |-> 0]
        changed(h) == {f \in DOMAIN h : h[f] # first[f]}
    IN {h \in all : Cardinality(changed(h)) \in {0, 1, 4}}

Blocks ==
    {Block(h.index, transactions, h.previous_hash, h.timestamp, h.nonce, h.timestamp) :
        h \in BlockHeaders, transactions \in BlockTxLists}

BlockObject(block) == [kind |-> "block", block |-> block]

InitHash ==
    /\ LedgerInit
    /\ \E block \in Blocks : obj = BlockObject(block)

\* the caller builds another block and drops the one held
NewBlock(block) ==
    /\ obj.kind = "block"
    /\ obj' = BlockObject(block)
    /\ last' = Returned("Block", TRUE, "none", 0)
    /\ UNCHANGED <<chain, pending, difficulty, mining_reward, threads, accepted>>

NextHash == \E block \in Blocks : NewBlock(block)

SpecHash == InitHash /\ [][NextHash]_vars

(***************************************************************************)
(* Tampering: a stored block is changed from outside the Blockchain API,   *)
(* then the ledger is used as before.                                      *)
(***************************************************************************)
Forged == HexLiteral("forged")

\* every single-field change the model makes to a stored block
Tamperings(c) ==
    {[block |-> i, field |-> f, tx |-> 0] :
        i \in 1..Len(c), f \in {"hash", "previous_hash"}}
    \cup UNION {{[block |-> i, field |-> "amount", tx |-> j] :
                    j \in 1..Len(c[i].transactions)} : i \in 1..Len(c)}

TamperApplies(c, t) ==
    CASE t.field = "hash" -> c[t.block].hash # Forged
      [] t.field = "previous_hash" -> c[t.block].previous_hash # Forged
      [] t.field = "amount" -> TRUE

ApplyTamper(c, t) ==
    CASE t.field = "hash" -> [c EXCEPT ![t.block].hash = Forged]
      [] t.field = "previous_hash" -> [c EXCEPT ![t.block].previous_hash = Forged]
      [] t.field = "amount" ->
            [c EXCEPT ![t.block].transactions[t.tx].amount = @ + 1]

Tamper(t) ==
    /\ AllIdle
    /\ TamperApplies(chain, t)
    /\ chain' = ApplyTamper(chain, t)
    /\ last' = Returned("tamper", TRUE, "none", 0)
    /\ UNCHANGED <<pending, difficulty, mining_reward, threads, accepted, obj>>

NextTamper ==
    \/ Next
    \/ \E t \in Tamperings(chain) : Tamper(t)

SpecTamper == Init /\ [][NextTamper]_vars

(***************************************************************************)
(* Properties                                                              *)
(***************************************************************************)
\* the signature the sender's wallet produces for the transaction
CorrectlySigned(tx) ==
    tx.sender \in Keys /\ tx.signature = WalletSign(tx.sender, tx_compute_hash(tx))

\* confirmed balance minus what the sender already has in the pool
Available(c, p, sender) == get_balance(c, sender) - pending_spent(p, sender)

IsPrefix(s, t) == Len(s) <= Len(t) /\ \A i \in 1..Len(s) : s[i] = t[i]

MineCalls == MinerKeys \X Timestamps \X Timestamps

\* C1: for a validly signed transaction of a sender other than SYSTEM,
\* add_transaction returns true, and appends it to the pool, exactly when
\* amount + fee <= get_balance(sender) - (amount + fee of the sender's
\* pending transactions); equality is accepted, anything larger rejected.
C1_AcceptIffAffordable ==
    [][\A tx \in SignedTxs :
          (CorrectlySigned(tx) /\ AddTransaction(tx))
          => /\ last'.ok <=> (tx.amount + tx.fee
                                <= Available(chain, pending, tx.sender))
             /\ last'.ok <=> (pending' = Append(pending, tx))]_vars

\* a transaction costing exactly the available amount, which is positive,
\* was accepted as the latest element of the pool
C1_Witness ==
    /\ last.op = "add_transaction" /\ last.ok
    /\ Len(pending) >= 2
    /\ LET tx == pending[Len(pending)]
           before == SubSeq(pending, 1, Len(pending) - 1)
       IN /\ CorrectlySigned(tx)
          /\ tx.amount + tx.fee > 0
          /\ tx.amount + tx.fee = Available(chain, before, tx.sender)

\* the transaction is one add_transaction turns down: its signature is
\* missing or does not verify, or the sender cannot afford it
Unacceptable(tx, c, p) ==
    \/ tx.sender # SYSTEM /\ ~CorrectlySigned(tx)
    \/ tx.sender # SYSTEM /\ tx.amount + tx.fee > Available(c, p, tx.sender)

\* C2: a rejected add_transaction returns false, raises nothing and leaves
\* chain and pending exactly as they were; and the calls that do not reject
\* append a transaction that is neither badly signed nor unaffordable, so
\* each of those causes ends in such a rejection.
C2_RejectLeavesLedger ==
    [][last'.op = "add_transaction"
          => /\ last'.raised = "none"
             /\ ~last'.ok => (chain' = chain /\ pending' = pending)
             /\ last'.ok => /\ chain' = chain
                            /\ Len(pending') = Len(pending) + 1
                            /\ SubSeq(pending', 1, Len(pending)) = pending
                            /\ ~Unacceptable(pending'[Len(pending')],
                                             chain, pending)]_vars

\* a call was rejected while the pool held a transaction and had room
C2_Witness ==
    /\ last.op = "add_transaction" /\ ~last.ok
    /\ pending # <<>>
    /\ Len(pending) < MaxPending

\* C3: after mine(minerKey) with pending fees summing to F and reward R,
\* the appended block's last transaction is SYSTEM -> minerKey amount R + F.
C3_RewardTransaction ==
    [][\A call \in MineCalls :
          MinePendingTransactions(call[1], call[2], call[3])
          => /\ Len(chain') = Len(chain) + 1
             /\ LET txs == chain'[Len(chain')].transactions
                    F == SumSeq([i \in 1..Len(pending) |-> pending[i].fee])
                IN /\ txs # <<>>
                   /\ txs[Len(txs)].sender = SYSTEM
                   /\ txs[Len(txs)].recipient = call[1]
                   /\ txs[Len(txs)].amount = mining_reward + F]_vars

\* C4: mine appends exactly one block with the tip's index + 1, the tip's
\* hash as previous_hash and the pending transactions in pool order followed
\* by the reward transaction, and leaves the pool empty.
C4_MineAppendsBlock ==
    [][\A call \in MineCalls :
          MinePendingTransactions(call[1], call[2], call[3])
          => /\ Len(chain') = Len(chain) + 1
             /\ SubSeq(chain', 1, Len(chain)) = chain
             /\ LET b == chain'[Len(chain')]
                    tip == chain[Len(chain)]
                IN /\ b.index = tip.index + 1
                   /\ b.previous_hash = tip.hash
                   /\ Len(b.transactions) = Len(pending) + 1
                   /\ SubSeq(b.transactions, 1, Len(pending)) = pending
             /\ pending' = <<>>]_vars

\* C6: the proof-of-work search yields a hash with at least difficulty
\* leading zeros that is the header hash at the returned nonce, the nonce is
\* the smallest one meeting the target, and the block mine stores in the
\* chain carries exactly that hash and nonce.
C6_StoredProofOfWork ==
    [][\A call \in MineCalls :
          MinePendingTransactions(call[1], call[2], call[3])
          => /\ Len(chain') > Len(chain)
             /\ LET b == chain'[Len(chain')] IN
                /\ b.hash = block_compute_hash(b)
                /\ StartsWithZeros(b.hash, difficulty)
                /\ \A n \in 0..(b.nonce - 1) :
                      ~StartsWithZeros(block_compute_hash([b EXCEPT !.nonce = n]),
                                       difficulty)]_vars

\* C7: changing a stored block's hash or previous_hash, or the amount of a
\* transaction in a block, of any block of the chain (genesis included)
\* makes is_chain_valid() return false.
C7_TamperDetected ==
    [][\A t \in Tamperings(chain) : Tamper(t) => ~is_chain_valid(chain')]_vars

\* C8: the chain is append-only: at every step the chain before is a prefix
\* of the chain after.
C8_AppendOnly == [][IsPrefix(chain, chain')]_vars

\* transactions were accepted into the pool and mine was then called
C8_Witness ==
    /\ last.op = "mine"
    /\ Len(pending) = MaxPending
    /\ Len(chain) >= 1

\* C9: add_transaction, accepting or rejecting, leaves the chain and hence
\* every identity's confirmed balance unchanged (the steps that set last.op
\* to "add_transaction" are the add_transaction calls).
C9_PendingOffBalance ==
    [][last'.op = "add_transaction"
          => /\ chain' = chain
             /\ \A pk \in Identities :
                   get_balance(chain', pk) = get_balance(chain, pk)]_vars

\* a transfer with a non-zero amount sits in the pool, just accepted
C9_Witness ==
    /\ last.op = "add_transaction" /\ last.ok
    /\ pending # <<>>
    /\ pending[Len(pending)].amount # 0
    /\ pending[Len(pending)].sender \in Keys

\* C10: for each sender other than SYSTEM, amount + fee summed over its
\* pending transactions never exceeds its confirmed balance, under any
\* interleaving of concurrent add_transaction calls.
C10_NoOverspend ==
    \A s \in Keys : pending_spent(pending, s) <= get_balance(chain, s)

(***************************************************************************)
(* Mining concurrent with submissions                                      *)
(***************************************************************************)
\* how many elements of the sequence s are x
Count(s, x) == Cardinality({i \in 1..Len(s) : s[i] = x})

\* how many places of the blocks of c hold tx
ChainCount(c, tx) == SumSeq([i \in 1..Len(c) |-> Count(c[i].transactions, tx)])

NoMineRunning == \A t \in Threads : threads[t].pc \notin {"line223", "line226"}

\* C11: whatever the interleaving of a mine call with add_transaction calls,
\* once no mine call is in progress every transaction for which
\* add_transaction returned True is held as many times as it was accepted,
\* each time either in the pending pool or in a block of the chain: none is
\* dropped and none is duplicated.
C11_NoneDroppedOrDuplicated ==
    NoMineRunning =>
        \A i \in 1..Len(accepted) :
            Count(pending, accepted[i]) + ChainCount(chain, accepted[i])
                = Count(accepted, accepted[i])

\* a mine call has just finished while a submission that is later decided
\* was in progress, and accepted transactions are held
C11_Witness ==
    /\ NoMineRunning
    /\ last.op = "mine"
    /\ \E t \in Submitters : threads[t].pc = "line202"
    /\ accepted # <<>>

(***************************************************************************)
(* Balances after mining                                                   *)
(***************************************************************************)
\* C13: when a wallet M that is neither sender nor recipient mines a pool
\* holding exactly one accepted transfer from A to B with amount a and fee
\* f, get_balance(A) decreases by a + f, get_balance(B) increases by a and
\* get_balance(M) increases by mining_reward + f.
C13_MineSettlesTransfer ==
    [][\A call \in MineCalls :
          ( /\ MinePendingTransactions(call[1], call[2], call[3])
            /\ Len(pending) = 1
            /\ pending[1].sender \in Keys
            /\ pending[1].recipient \in Keys
            /\ call[1] \notin {pending[1].sender, pending[1].recipient} )
          => LET tx == pending[1] IN
             /\ get_balance(chain', tx.sender)
                  = get_balance(chain, tx.sender) - (tx.amount + tx.fee)
             /\ get_balance(chain', tx.recipient)
                  = get_balance(chain, tx.recipient) + tx.amount
             /\ get_balance(chain', call[1])
                  = get_balance(chain, call[1]) + mining_reward + tx.fee]_vars

(***************************************************************************)
(* Signing                                                                 *)
(***************************************************************************)
\* C14: sign with a wallet whose public key differs from the sender raises
\* the mismatch error and leaves the transaction, its signature included,
\* as it was; sign with the sender's wallet sets the signature to that
\* wallet's signature over compute_hash; and a transaction so signed passes
\* is_valid whenever its sender, recipient, amount, fee and timestamp have
\* the values they had when sign returned.
C14_SignChecksIdentity ==
    /\ [][\A wallet \in MinerKeys :
             SignTransaction(wallet) =>
                IF wallet # obj.tx.sender
                THEN /\ last'.raised = "ValueError"
                     /\ obj'.tx = obj.tx
                ELSE /\ last'.raised = "none"
                     /\ obj'.tx.signature
                          = WalletSign(wallet, tx_compute_hash(obj.tx))
                     /\ SignedFields(obj'.tx) = SignedFields(obj.tx)]_vars
    /\ []((/\ obj.kind = "tx"
           /\ obj.signed_fields # NoObject
           /\ SignedFields(obj.tx) = obj.signed_fields) => is_valid(obj.tx))

\* a transaction signed by its sender's wallet, on which a later sign with
\* another wallet has just failed, still unchanged and valid
C14_Witness ==
    /\ obj.kind = "tx"
    /\ obj.signed_fields = SignedFields(obj.tx)
    /\ last.op = "sign"
    /\ last.raised = "ValueError"
    /\ is_valid(obj.tx)

(***************************************************************************)
(* Sensitivity of the block hash                                           *)
(***************************************************************************)
HeaderDiffers(a, b) ==
    \/ a.index # b.index
    \/ a.previous_hash # b.previous_hash
    \/ a.timestamp # b.timestamp
    \/ a.nonce # b.nonce

\* C15 as stated: two blocks that differ in nonce, timestamp, previous_hash,
\* index or transaction list (in length or in any element) have different
\* hashes.
C15_HashChangesWithAnyChange ==
    [][(/\ obj.kind = "block"
        /\ obj'.kind = "block"
        /\ \/ HeaderDiffers(obj.block, obj'.block)
           \/ obj.block.transactions # obj'.block.transactions)
       => obj'.block.hash # obj.block.hash]_vars

\* C15 amended: two blocks that differ in nonce, timestamp, previous_hash or
\* index, or whose transaction lists have the same length and differ at some
\* position in sender, recipient, amount, fee or timestamp, have different
\* hashes.
C15_HashChangesWithHashedChange ==
    [][(/\ obj.kind = "block"
        /\ obj'.kind = "block"
        /\ \/ HeaderDiffers(obj.block, obj'.block)
           \/ /\ Len(obj.block.transactions) = Len(obj'.block.transactions)
              /\ \E j \in 1..Len(obj.block.transactions) :
                    SignedFields(obj.block.transactions[j])
                      # SignedFields(obj'.block.transactions[j]))
       => obj'.block.hash # obj.block.hash]_vars

\* a second block has been built, with an odd number of transactions above
\* one, so that its Merkle levels are padded
C15_Witness ==
    /\ obj.kind = "block"
    /\ last.op = "Block"
    /\ Len(obj.block.transactions) = 3
    /\ obj.block.nonce = 1

(***************************************************************************)
(* What the ledger holds                                                   *)
(***************************************************************************)
\* every transaction held, in the blocks of the chain and then in the pool
Held(c, p) ==
    UNION {Range(c[i].transactions) : i \in 1..Len(c)} \cup Range(p)

\* C16: every transaction held by the ledger, in the pending pool or in a
\* block of the chain, has amount >= 0 and fee >= 0.
C16_NonNegativeAmounts ==
    \A tx \in Held(chain, pending) : tx.amount >= 0 /\ tx.fee >= 0

\* C17: no transaction of a sender other than SYSTEM, identified by its
\* sender, recipient, amount, fee, timestamp and signature, is held more
\* than once across the pending pool and the blocks of the chain.
C17_HeldAtMostOnce ==
    \A tx \in Held(chain, pending) :
        tx.sender # SYSTEM => Count(pending, tx) + ChainCount(chain, tx) <= 1

(***************************************************************************)
(* Confirmed balances                                                      *)
(***************************************************************************)
\* C18: get_balance(pk) >= 0 for every identity pk other than SYSTEM, in
\* every state reached by add_transaction and mine calls.
C18_NoNegativeBalance == \A pk \in MinerKeys : get_balance(chain, pk) >= 0

\* a balance has been asked for after a transfer that costs its sender
\* something was accepted
C18_Witness ==
    /\ last.op = "get_balance"
    /\ \E i \in 1..Len(accepted) :
          accepted[i].sender \in Keys /\ accepted[i].amount + accepted[i].fee > 0

\* the SYSTEM transactions of the blocks of c that came in through
\* add_transaction, with what each issues
SubmittedIssuance(c) ==
    SumSeq([i \in 1..Len(c) |->
              SumSeq([j \in 1..Len(c[i].transactions) |->
                        LET tx == c[i].transactions[j] IN
                        IF tx.sender = SYSTEM /\ tx \in Range(accepted)
                        THEN tx.amount + tx.fee ELSE 0])])

TotalBalance(c) ==
    get_balance(c, "A") + get_balance(c, "B") + get_balance(c, "M")

\* C19: the balances of all identities other than SYSTEM add up to
\* mining_reward times the number of blocks after genesis plus amount + fee
\* of every SYSTEM transaction submitted through add_transaction and
\* included in the chain.
C19_ValueConserved ==
    TotalBalance(chain)
        = mining_reward * (Len(chain) - 1) + SubmittedIssuance(chain)

\* mine has been called on a pool that holds a transaction paying a fee
C19_Witness ==
    /\ last.op = "mine"
    /\ \E i \in 1..Len(pending) : pending[i].sender \in Keys /\ pending[i].fee > 0

(***************************************************************************)
(* Validity of the untampered chain                                        *)
(***************************************************************************)
\* C20: with no tampering, is_chain_valid() returns True in every state
\* reached by add_transaction and mine calls: every block after genesis
\* stores the hash recomputed from its attributes, links to its
\* predecessor and holds only transactions that pass is_valid.
C20_UntamperedChainValid ==
    /\ last.op = "is_chain_valid" => last.ok
    /\ is_chain_valid(chain)
    /\ \A i \in 2..Len(chain) :
          /\ chain[i].hash = block_compute_hash(chain[i])
          /\ chain[i].previous_hash = chain[i - 1].hash
          /\ \A tx \in Range(chain[i].transactions) : is_valid(tx)

\* is_chain_valid has returned after submissions were accepted
C20_Witness ==
    /\ last.op = "is_chain_valid"
    /\ last.ok
    /\ Len(accepted) >= 2
====
